---- MODULE Spec2Model ----
(***************************************************************************)
(* Model of the Clay activity hub (HubImpl, HubPortImpl) and of the        *)
(* Attention faculty.  Two specifications share this module:               *)
(*   SpecHub  - the hub, its ports and the handlers registered with it;    *)
(*   SpecAtt  - the Attention faculty: pending queues, admission tick,     *)
(*              eviction, start/stop.                                      *)
(***************************************************************************)
EXTENDS Integers, Sequences, FiniteSets, Bags, TLC

\* JavaScript's undefined
None == "none"

\* ------------------------------------------------------------------------
\* Bounds of the model
\* ------------------------------------------------------------------------
\* number of ActivityHandler objects alive at once
MaxHandlers == 2
\* number of AttentionEntry objects alive at once (pending, selected, field)
MaxEntries == 3
\* number of handlers Attention.start has registered with the hub
MaxSubscriptions == 2

\* ------------------------------------------------------------------------
\* Value domains
\* ------------------------------------------------------------------------
Roles == {"a", "b"}
FacultyObjs == {"f1", "f2"}
\* details.action of an activity
Verbs == {"add", "cleared"}
\* what a call handler.handle(activity) can do: return a promise that
\* fulfils, return a promise that rejects, or throw before returning one
Outcomes == {"ok", "reject", "throw"}
\* conditions: the ActivityFilter isConscious and an ActivityMask
Conditions ==
  { [kind |-> "filter", role |-> None, verb |-> None],
    [kind |-> "mask", role |-> "a", verb |-> "add"] }
\* the same, and an ActivityFilter that throws when it is called
Matchers ==
  Conditions \cup { [kind |-> "throwing", role |-> None, verb |-> None] }
\* activities handed to Hub.appendActivity: one accepted by the mask only,
\* one by the filter only (the mask refuses its verb), one by both, one by
\* neither (the mask refuses its role)
Activities ==
  { [role |-> "a", action |-> "add", conscious |-> FALSE],
    [role |-> "a", action |-> "cleared", conscious |-> TRUE],
    [role |-> "a", action |-> "add", conscious |-> TRUE],
    [role |-> "b", action |-> "add", conscious |-> FALSE] }

VARIABLES
  \* HubImpl
  faculties,          \* Map<string, Faculty>: a function on the roles it has
  running,            \* boolean
  handlers_of_role,   \* Map<string, Set<ActivityHandler>>, likewise
  all_handlers,       \* Set<ActivityHandler>, in insertion order
  \* the ActivityHandler objects created by HubPortImpl that the hub or a
  \* port still holds, by identity
  handlers,
  \* the HubPort held by each faculty object (Faculty.setHub / unsetHub);
  \* NoPort when the faculty holds none
  hubPort,
  \* observation of the last call of appendActivity, connectFaculty or
  \* disconnectFaculty: its name, its arguments, the handlers it invoked (in
  \* order), whether a handler's promise rejected, and whether the operation
  \* raised to its caller
  last,
  \* the calls of triggerHandlers that have not returned, outermost first:
  \* the activity, the array matchedHandlers, and the handlers whose handle
  \* has been called so far; the last of these is running
  fanout,
  \* hub-port-impl.ts
  activitySequence,   \* the module's counter of the ids handed out
  \* the activities built by HubPortImpl.appendActivity so far: the id and
  \* the role each was given, and the role of the port that built it
  created

idVars == <<activitySequence, created>>

hubVars == <<faculties, running, handlers_of_role, all_handlers, handlers,
             hubPort, last, fanout, idVars>>

VARIABLES
  \* Attention
  config,                    \* AttentionConfig given to the constructor
  att_hubPort,               \* whether Attention.hubPort is set
  focuses,                   \* Map<string, number>, in units of 1/FocusDen
  attentionField,            \* AttentionEntry[]
  currentSize,               \* number
  pendingActivitiesByRole,   \* Map<string, MaxPriorityQueue>, in insertion
                             \* order of the roles: <<[role, queue]>>, a queue
                             \* being the bag of its entries
  paceTimer,                 \* whether the field holds a timer
  \* the interval timers of the runtime that call processPendingActivities
  intervals,
  \* the handlers Attention.start has registered through its port and the
  \* hub still holds
  subscriptions,
  \* the execution of processPendingActivities: "awaiting" while it is
  \* suspended at its await; otherwise no tick is executing, and "completed"
  \* or "rejected" tell that the last step ended one, "idle" that it did not
  pc,
  \* its locals toAdd and addedSize, kept until the step after the tick
  toAdd, addedSize,
  \* the promise of clearAttentionField it awaits: "none" when there is none,
  \* "silent" when it resolved without publishing, "published", "rejected"
  clearing,
  \* the actions of the activities the current or last tick handed to
  \* hubPort.appendActivity, in order
  emitted,
  \* the body of the activity handed to hubPort.appendActivity in the step
  \* just taken
  body,
  \* whether the step just taken was a call of handleConsciousActivity that
  \* logged its warning and returned
  warned,
  \* whether stop() has returned and start() has not been called since
  stopped,
  \* the ticks that were suspended when a newer tick began, oldest first,
  \* each with its locals and the promise it awaits
  suspended

attVars == <<config, att_hubPort, focuses, attentionField, currentSize,
             pendingActivitiesByRole, paceTimer, subscriptions, pc, toAdd,
             addedSize, clearing, emitted, stopped, intervals,
             suspended, body, warned>>

vars == <<hubVars, attVars>>

NoOp == [op |-> "other", role |-> None, fac |-> None, act |-> None,
         invoked |-> <<>>, rejected |-> FALSE, raised |-> FALSE, warn |-> None]

Observe(op, role, fac, act, res, warn) ==
  [op |-> op, role |-> role, fac |-> fac, act |-> act,
   invoked |-> res.invoked, rejected |-> res.rejected, raised |-> res.raised,
   warn |-> warn]

NoCalls == [invoked |-> <<>>, rejected |-> FALSE, raised |-> FALSE]

\* ------------------------------------------------------------------------
\* Sequence helpers (JavaScript Set keeps insertion order)
\* ------------------------------------------------------------------------
Range(s) == { s[i] : i \in 1..Len(s) }

SeqRemove(s, x) == SelectSeq(s, LAMBDA y : y # x)

SeqAdd(s, x) == IF x \in Range(s) THEN s ELSE Append(s, x)

Count(s, x) == Cardinality({ i \in 1..Len(s) : s[i] = x })

\* Map.set and Map.delete
MapSet(m, k, v) == [x \in DOMAIN m \cup {k} |-> IF x = k THEN v ELSE m[x]]

MapDelete(m, k) == [x \in DOMAIN m \ {k} |-> m[x]]

EmptyMap == [x \in {} |-> None]

\* the handler objects still referenced by the hub's set all, by a port or
\* by the array of a triggerHandlers that has not returned; the others are
\* garbage and their identity is free again
ReachableFrom(hs, all, ports, frames) ==
  LET live == Range(all) \cup
              UNION { Range(ports[f].registeredHandlers) : f \in DOMAIN ports } \cup
              UNION { Range(frames[i].matched) : i \in 1..Len(frames) }
  IN [h \in DOMAIN hs \cap live |-> hs[h]]

Reachable(hs, all, ports) == ReachableFrom(hs, all, ports, fanout)

\* ------------------------------------------------------------------------
\* HubImpl
\* ------------------------------------------------------------------------
NoPort == [role |-> None, registeredHandlers |-> <<>>]

HubInit ==
  /\ faculties = EmptyMap
  /\ running = FALSE
  /\ handlers_of_role = EmptyMap
  /\ all_handlers = <<>>
  /\ handlers = EmptyMap
  /\ hubPort = [f \in FacultyObjs |-> NoPort]
  /\ last = NoOp
  /\ fanout = <<>>
  /\ activitySequence = 0
  /\ created = <<>>

isConscious(activity) == activity.conscious

matchCondition(activity, condition) ==
  IF condition.role # None /\ activity.role # condition.role THEN FALSE
  ELSE IF condition.verb # None /\ activity.action # condition.verb THEN FALSE
  ELSE TRUE

\* the isMatch computed by the filter callback of triggerHandlers
isMatch(h, activity) ==
  IF handlers[h].condition.kind = "filter"
    THEN isConscious(activity)
    ELSE IF handlers[h].condition.kind = "throwing"
      THEN FALSE   \* filter(activity) throws: isMatch gets no value
      ELSE matchCondition(activity, handlers[h].condition)

\* whether the call filter(activity) of the handler's condition throws
filterThrows(h, activity) == handlers[h].condition.kind = "throwing"

\* matchedHandlers.map(handler => handler.handle(activity).catch(...)):
\* the handles are called in order, outcome[i] being what the i-th call
\* does; a rejected promise is caught by .catch, an exception thrown by the
\* call itself leaves map, so the later handles are not called
RECURSIVE callHandlers(_, _)
callHandlers(matched, outcome) ==
  IF matched = <<>> THEN NoCalls
  ELSE IF Head(outcome) = "throw"
    THEN [invoked |-> <<Head(matched)>>, rejected |-> FALSE, raised |-> TRUE]
    ELSE LET rest == callHandlers(Tail(matched), Tail(outcome))
         IN [invoked |-> <<Head(matched)>> \o rest.invoked,
             rejected |-> (Head(outcome) = "reject") \/ rest.rejected,
             raised |-> rest.raised]

matchedHandlers(activity) ==
  SelectSeq(all_handlers, LAMBDA h : isMatch(h, activity))

\* triggerHandlers(activity): the callback of Array.filter calls
\* filter(activity) as it is, so a filter that throws leaves filter and
\* triggerHandlers before any handle is called
triggerHandlers(activity, outcome) ==
  IF \E h \in Range(all_handlers) : filterThrows(h, activity)
    THEN [invoked |-> <<>>, rejected |-> FALSE, raised |-> TRUE]
    ELSE callHandlers(matchedHandlers(activity), outcome)

\* appendActivity without the check of running
appendActivity_notGuarded(activity, outcome) ==
  triggerHandlers(activity, outcome)

\* appendActivity returning after the warning about an unregistered role
appendActivity_strict(activity, outcome) ==
  IF ~running \/ activity.role \notin DOMAIN faculties THEN NoCalls
  ELSE triggerHandlers(activity, outcome)

\* Hub.appendActivity(activity): what it invokes and whether it raises.
\* A hub that is not running returns at once; an activity of a role that is
\* not registered is only warned about.
appendActivity(activity, outcome) ==
  IF ~running THEN NoCalls
  ELSE triggerHandlers(activity, outcome)

\* the logger.warn of appendActivity
appendActivityWarning(activity) ==
  IF ~running THEN "not running"
  ELSE IF activity.role \notin DOMAIN faculties THEN "unregistered"
  ELSE None

\* a call of Hub.appendActivity(activity), by anyone
deliver(activity) ==
  \E res \in { appendActivity(activity, outcome) :
                 outcome \in [1..Len(matchedHandlers(activity)) -> Outcomes] } :
    /\ last' = Observe("publish", activity.role, None, activity, res,
                       appendActivityWarning(activity))
    /\ UNCHANGED <<faculties, running, handlers_of_role, all_handlers,
                   handlers, hubPort>>
    /\ UNCHANGED <<fanout, attVars>>

\* Hub.appendActivity(activity) called with an activity built elsewhere
Hub_appendActivity(activity) ==
  /\ deliver(activity)
  /\ UNCHANGED idVars

\* connectFaculty without the check of faculties.has(role)
connectFaculty_overwrite(role, faculty) ==
  /\ last' = Observe("connect", role, faculty, None, NoCalls,
                     IF role \in DOMAIN faculties THEN "taken" ELSE None)
  /\ faculties' = MapSet(faculties, role, faculty)
  /\ hubPort' = [hubPort EXCEPT ![faculty] =
                   [role |-> role, registeredHandlers |-> <<>>]]
  /\ handlers' = Reachable(handlers, all_handlers, hubPort')
  /\ UNCHANGED <<running, handlers_of_role, all_handlers>>
  /\ UNCHANGED <<fanout, idVars, attVars>>

connectFaculty(role, faculty) ==
  /\ last' = Observe("connect", role, faculty, None, NoCalls,
                     IF role \in DOMAIN faculties THEN "taken" ELSE None)
  /\ IF role \in DOMAIN faculties
       THEN UNCHANGED <<faculties, hubPort>>
       ELSE /\ faculties' = MapSet(faculties, role, faculty)
            \* faculty.setHub(new HubPortImpl(role, this, faculty))
            /\ hubPort' = [hubPort EXCEPT ![faculty] =
                             [role |-> role, registeredHandlers |-> <<>>]]
  /\ handlers' = Reachable(handlers, all_handlers, hubPort')
  /\ UNCHANGED <<running, handlers_of_role, all_handlers>>
  /\ UNCHANGED <<fanout, idVars, attVars>>

\* unregisterAllActivityHandler forgetting all_handlers
unregisterAllActivityHandler_keepsAll(role) == all_handlers

\* the all_handlers left by unregisterAllActivityHandler(role)
unregisterAllActivityHandler(role) ==
  IF role \in DOMAIN handlers_of_role
    THEN SelectSeq(all_handlers, LAMBDA h : h \notin handlers_of_role[role])
    ELSE all_handlers

disconnectFaculty(role) ==
  /\ last' = Observe("disconnect", role, None, None, NoCalls,
                     IF role \notin DOMAIN faculties THEN "unknown" ELSE None)
  /\ IF role \notin DOMAIN faculties
       THEN UNCHANGED <<faculties, hubPort, handlers_of_role, all_handlers>>
       ELSE \* faculty.unsetHub()
            /\ hubPort' = [hubPort EXCEPT ![faculties[role]] = NoPort]
            /\ faculties' = MapDelete(faculties, role)
            /\ all_handlers' = unregisterAllActivityHandler(role)
            /\ handlers_of_role' = MapDelete(handlers_of_role, role)
  /\ handlers' = Reachable(handlers, all_handlers', hubPort')
  /\ UNCHANGED running
  /\ UNCHANGED <<fanout, idVars, attVars>>

Hub_resume ==
  /\ last' = NoOp
  /\ running' = IF running THEN running ELSE TRUE
  /\ UNCHANGED <<faculties, handlers_of_role, all_handlers, handlers,
                 hubPort>>
  /\ UNCHANGED <<fanout, idVars, attVars>>

Hub_stop ==
  /\ last' = NoOp
  /\ running' = IF ~running THEN running ELSE FALSE
  /\ UNCHANGED <<faculties, handlers_of_role, all_handlers, handlers,
                 hubPort>>
  /\ UNCHANGED <<fanout, idVars, attVars>>

\* ------------------------------------------------------------------------
\* HubPortImpl
\* ------------------------------------------------------------------------
\* the ids followed
MaxSequence == 2

\* the role names, as texts: two names that agree on their first ten
\* characters
RoleText ==
  [a |-> <<"r", "e", "s", "e", "a", "r", "c", "h", "e", "r", "-", "1">>,
   b |-> <<"r", "e", "s", "e", "a", "r", "c", "h", "e", "r", "-", "2">>]

\* the readings of the clock, as HHMMSS
Clock == { <<"1", "4", "3", "0", "5", "2">>, <<"1", "4", "3", "0", "5", "3">> }

Min(x, y) == IF x <= y THEN x ELSE y

\* text.slice(0, end)
slice(text, end) == SubSeq(text, 1, Min(end, Len(text)))

Digit(d) == <<"0", "1", "2", "3", "4", "5", "6", "7", "8", "9">>[d + 1]

RECURSIVE toString(_)
\* n.toString() of a natural number
toString(n) ==
  IF n < 10 THEN <<Digit(n)>> ELSE toString(n \div 10) \o <<Digit(n % 10)>>

RECURSIVE padStart(_, _, _)
\* text.padStart(targetLength, pad) with a pad of one character
padStart(text, targetLength, pad) ==
  IF Len(text) >= targetLength THEN text
  ELSE padStart(<<pad>> \o text, targetLength, pad)

\* generateUniqueId without the sequence number
generateUniqueId_noSeq(role, timeStr, sequence) ==
  slice(RoleText[role], 10) \o <<"-">> \o timeStr

\* generateUniqueId(role): `${prefix}-${timeStr}-${seq}`, sequence being
\* the value of ++activitySequence
generateUniqueId(role, timeStr, sequence) ==
  LET seq == padStart(toString(sequence), 4, "0")
      prefix == slice(RoleText[role], 10)
  IN prefix \o <<"-">> \o timeStr \o <<"-">> \o seq

\* the activity built with a key __is_conscious
portActivity_conscious(port, verb, id) ==
  [role |-> port.role, action |-> verb, conscious |-> TRUE, id |-> id]

\* the object literal of HubPortImpl.appendActivity: its keys are id, role,
\* details and timestamp, so '__is_conscious' in activity is false
portActivity(port, verb, id) ==
  [role |-> port.role, action |-> verb, conscious |-> FALSE, id |-> id]

\* port.appendActivity(body): the activity gets a fresh id and the port's
\* role, and goes to Hub.appendActivity
Port_appendActivity(faculty, verb, timeStr) ==
  /\ hubPort[faculty] # NoPort
  /\ activitySequence < MaxSequence
  /\ activitySequence' = activitySequence + 1
  /\ LET id == generateUniqueId(hubPort[faculty].role, timeStr,
                                activitySequence')
         activity == portActivity(hubPort[faculty], verb, id)
     IN /\ created' = Append(created, [id |-> activity.id,
                                       role |-> activity.role,
                                       port |-> hubPort[faculty].role])
        /\ deliver(activity)

\* port.registerActivityHandler(condition, handle, description): a new
\* ActivityHandler object, registered with the hub and kept by the port
Port_registerActivityHandler(faculty, condition) ==
  /\ hubPort[faculty] # NoPort
  /\ Cardinality(DOMAIN handlers) < MaxHandlers
  /\ LET role == hubPort[faculty].role
         h == CHOOSE i \in 1..MaxHandlers :
                /\ i \notin DOMAIN handlers
                /\ \A j \in 1..MaxHandlers : j \notin DOMAIN handlers => i <= j
     IN /\ handlers' = MapSet(handlers, h, [role |-> role, condition |-> condition])
        \* Hub.registerActivityHandler(handler)
        /\ handlers_of_role' =
             IF role \notin DOMAIN handlers_of_role
               THEN MapSet(handlers_of_role, role, {h})
               ELSE [handlers_of_role EXCEPT ![role] = @ \cup {h}]
        /\ all_handlers' = SeqAdd(all_handlers, h)
        /\ hubPort' = [hubPort EXCEPT ![faculty].registeredHandlers =
                         SeqAdd(@, h)]
        /\ last' = NoOp
  /\ UNCHANGED <<faculties, running>>
  /\ UNCHANGED <<fanout, idVars, attVars>>

\* unregisterByHandle(handle), handle being the function handler h was
\* registered with (every registration passes a function of its own): h
\* leaves the port's own set; the hub is not called
unregisterByHandle(registered, h) == SeqRemove(registered, h)

\* port.unregisterActivityHandler(target) with target a handle function
Port_unregisterActivityHandler(faculty, h) ==
  /\ hubPort[faculty] # NoPort
  /\ h \in DOMAIN handlers
  /\ hubPort' = [hubPort EXCEPT ![faculty].registeredHandlers =
                   unregisterByHandle(@, h)]
  /\ handlers' = Reachable(handlers, all_handlers, hubPort')
  /\ last' = NoOp
  /\ UNCHANGED <<faculties, running, handlers_of_role, all_handlers>>
  /\ UNCHANGED <<fanout, idVars, attVars>>

\* port.unregisterAllHandlers(): registeredHandlers.clear()
Port_unregisterAllHandlers(faculty) ==
  /\ hubPort[faculty] # NoPort
  /\ hubPort' = [hubPort EXCEPT ![faculty].registeredHandlers = <<>>]
  /\ handlers' = Reachable(handlers, all_handlers, hubPort')
  /\ last' = NoOp
  /\ UNCHANGED <<faculties, running, handlers_of_role, all_handlers>>
  /\ UNCHANGED <<fanout, idVars, attVars>>

\* ------------------------------------------------------------------------
\* HubImpl.appendActivity, handler by handler
\* ------------------------------------------------------------------------
\* the nesting of appendActivity calls followed
MaxDepth == 2

Top(stack) == stack[Len(stack)]

Pop(stack) == SubSeq(stack, 1, Len(stack) - 1)

\* the array that map walks: matchedHandlers, built by Array.from(...).filter
\* before the first handle is called
fanoutList(frame) == frame.matched

\* hub.appendActivity(activity), called from outside or by the handler that
\* is running: the matching handlers are collected and the first handle is
\* called
Dispatch_publish(activity) ==
  /\ Len(fanout) < MaxDepth
  /\ LET matched == matchedHandlers(activity)
     IN IF \/ ~running
           \/ \E h \in Range(all_handlers) : filterThrows(h, activity)
           \/ matched = <<>>
          THEN UNCHANGED fanout
          ELSE fanout' = Append(fanout, [act |-> activity, matched |-> matched,
                                         invoked |-> <<Head(matched)>>])
  /\ last' = NoOp
  /\ UNCHANGED <<faculties, running, handlers_of_role, all_handlers,
                 handlers, hubPort>>
  /\ UNCHANGED <<idVars, attVars>>

\* the handle that is running comes back to map: with a promise (settled
\* later, a rejection being caught by .catch) or by throwing. map calls the
\* next handle of its array, and returns after the last one; an exception
\* leaves map and appendActivity at once.
Dispatch_step(outcome) ==
  /\ fanout # <<>>
  /\ LET frame == Top(fanout)
         list == fanoutList(frame)
         n == Len(frame.invoked)
     IN IF outcome = "throw"
          THEN /\ fanout' = Pop(fanout)
               /\ last' = Observe("fanout", frame.act.role, None, frame.act,
                                  [invoked |-> frame.invoked, rejected |-> FALSE,
                                   raised |-> TRUE], None)
          ELSE IF n < Len(list)
            THEN /\ fanout' = [fanout EXCEPT ![Len(fanout)].invoked =
                                 Append(@, list[n + 1])]
                 /\ last' = NoOp
            ELSE /\ fanout' = Pop(fanout)
                 /\ last' = Observe("fanout", frame.act.role, None, frame.act,
                                    [invoked |-> frame.invoked,
                                     rejected |-> FALSE, raised |-> FALSE], None)
  /\ handlers' = ReachableFrom(handlers, all_handlers, hubPort, fanout')
  /\ UNCHANGED <<faculties, running, handlers_of_role, all_handlers, hubPort>>
  /\ UNCHANGED <<idVars, attVars>>

\* ------------------------------------------------------------------------
\* Attention
\* ------------------------------------------------------------------------
\* focus values are multiples of 1/FocusDen
FocusDen == 2

\* The number NaN, written as a value that no size and no other focus is.
\* Math.floor(x * (0 / 0)) is NaN, a sum with NaN is NaN, and every
\* comparison with NaN is false.
NaN == -1

\* what setFacultyFocus is called with: -1, 0, 0.5, 1.5 and NaN
FocusInputs == {-2, 0, 1, 3, NaN}

\* x < y of two numbers
Less(x, y) == x # NaN /\ y # NaN /\ x < y

\* configurations: maxSize, clearPercentage (a fraction), reaction_time (ms),
\* size_per_second, max_entry_length
Configs ==
  { [maxSize |-> 4, clearPercentage |-> <<1, 2>>, reaction_time |-> 200,
     size_per_second |-> 15, max_entry_length |-> 3],
    [maxSize |-> 3, clearPercentage |-> <<1, 1>>, reaction_time |-> 500,
     size_per_second |-> 4, max_entry_length |-> 2] }

\* the Conscious activities published: role, timestamp, priority, the length
\* of the text readable() returns, and whether readable() throws
ConsciousEvents ==
  { [role |-> "a", timestamp |-> 1, priority |-> 9, readable |-> 2, fails |-> FALSE],
    [role |-> "b", timestamp |-> 2, priority |-> 9, readable |-> 5, fails |-> FALSE],
    [role |-> "b", timestamp |-> 1, priority |-> 5, readable |-> 1, fails |-> FALSE],
    [role |-> "a", timestamp |-> 1, priority |-> 5, readable |-> 1, fails |-> TRUE],
    [role |-> "c", timestamp |-> 1, priority |-> 5, readable |-> 1, fails |-> FALSE] }

\* the roles setFacultyFocus is called for
FocusRoles == {"b"}

\* the roles Conscious activities come from
SourceRoles == { activity.role : activity \in ConsciousEvents }

\* no activity body
NoBody == [action |-> None]

\* the state the constructor leaves
AttentionInit(cfg) ==
  /\ config = cfg
  /\ att_hubPort = FALSE
  /\ focuses = EmptyMap
  /\ attentionField = <<>>
  /\ currentSize = 0
  /\ pendingActivitiesByRole = <<>>
  /\ paceTimer = FALSE
  /\ intervals = 0
  /\ subscriptions = 0
  /\ pc = "idle"
  /\ toAdd = <<>>
  /\ addedSize = 0
  /\ clearing = "none"
  /\ emitted = <<>>
  /\ body = NoBody
  /\ warned = FALSE
  /\ stopped = FALSE
  /\ suspended = <<>>

Max(x, y) == IF x >= y THEN x ELSE y

RECURSIVE SumLength(_)
\* entries.reduce((sum, e) => sum + e.content.length, 0)
SumLength(entries) ==
  IF entries = <<>> THEN 0
  ELSE Head(entries).content.length + SumLength(Tail(entries))

RECURSIVE Concat(_)
Concat(seqs) == IF seqs = <<>> THEN <<>> ELSE Head(seqs) \o Concat(Tail(seqs))

SeqToBag(entries) ==
  LET S == Range(entries) IN [e \in S |-> Count(entries, e)]

\* the queue of a role; a role without a key has none
QueueOf(pending, role) ==
  LET hit == { i \in 1..Len(pending) : pending[i].role = role }
  IN IF hit = {} THEN EmptyBag ELSE pending[CHOOSE i \in hit : TRUE].queue

RECURSIVE PendingCount(_)
PendingCount(pending) ==
  IF pending = <<>> THEN 0
  ELSE BagCardinality(Head(pending).queue) + PendingCount(Tail(pending))

\* AttentionEntry objects alive
Alive ==
  Len(attentionField) + PendingCount(pendingActivitiesByRole)
    + (IF pc = "awaiting" THEN Len(toAdd) ELSE 0)

\* Code outside the tick runs between two macrotasks, or, while the tick is
\* suspended at its await, from the handlers of the 'cleared' activity that
\* clearAttentionField published. It leaves the tick's locals alone.
Outside ==
  /\ pc = "awaiting" => clearing \in {"published", "rejected"}
  /\ IF pc = "awaiting"
       THEN UNCHANGED <<pc, toAdd, addedSize, clearing, emitted>>
       ELSE /\ pc' = "idle"
            /\ toAdd' = <<>>
            /\ addedSize' = 0
            /\ clearing' = "none"
            /\ emitted' = <<>>
  /\ body' = NoBody

\* the value undefined
undefined == [undefined |-> TRUE]

\* consciousToEntry: undefined when readable() throws; else the content is
\* cut to max_entry_length - 3 characters (substring takes a negative end
\* as 0) and "..." is appended
consciousToEntry(activity) ==
  LET cut == activity.readable > config.max_entry_length
  IN IF activity.fails THEN undefined
     ELSE [role |-> activity.role, timestamp |-> activity.timestamp,
           priority |-> activity.priority,
           content |-> [length |-> IF cut
                                     THEN Max(config.max_entry_length - 3, 0) + 3
                                     ELSE activity.readable,
                        dots |-> cut]]

\* queue.enqueue(entry), the role's queue created when missing
enqueue(pending, entry) ==
  IF \E i \in 1..Len(pending) : pending[i].role = entry.role
    THEN [i \in 1..Len(pending) |->
            IF pending[i].role = entry.role
              THEN [pending[i] EXCEPT !.queue = @ (+) SetToBag({entry})]
              ELSE pending[i]]
    ELSE Append(pending, [role |-> entry.role, queue |-> SetToBag({entry})])

RECURSIVE handleConsciousActivity(_, _, _)
\* handleConsciousActivity queueing an entry without content when
\* consciousToEntry returns none
handleConsciousActivity_noCheck(pending, activity, times) ==
  LET entry == consciousToEntry(activity)
      queued == IF entry = undefined
                  THEN [role |-> activity.role, timestamp |-> activity.timestamp,
                        priority |-> activity.priority,
                        content |-> [length |-> 0, dots |-> FALSE]]
                  ELSE entry
  IN IF times = 0 THEN pending
     ELSE handleConsciousActivity(enqueue(pending, queued), activity, times - 1)

\* handleConsciousActivity(activity), once per handler start() registered:
\* it returns after the warning when consciousToEntry gave no entry
handleConsciousActivity(pending, activity, times) ==
  LET entry == consciousToEntry(activity)
  IN IF times = 0 \/ entry = undefined THEN pending
     ELSE handleConsciousActivity(enqueue(pending, entry), activity, times - 1)

\* A Conscious activity reaches the hub: every handler Attention.start
\* registered is called with it
Hub_publishConscious(activity) ==
  /\ Outside
  /\ subscriptions > 0
  /\ activity.fails \/ Alive + subscriptions <= MaxEntries
  /\ pendingActivitiesByRole' =
       handleConsciousActivity(pendingActivitiesByRole, activity, subscriptions)
  \* logger.warn of handleConsciousActivity
  /\ warned' = (consciousToEntry(activity) = undefined)
  /\ UNCHANGED <<config, att_hubPort, focuses, attentionField, currentSize,
                 paceTimer, subscriptions>>
  /\ UNCHANGED <<stopped, intervals, suspended>>
  /\ UNCHANGED hubVars

\* hub.connectFaculty(role, attention) of a free role: setHub
Attention_setHub ==
  /\ Outside
  /\ ~att_hubPort
  /\ att_hubPort' = TRUE
  /\ UNCHANGED <<config, focuses, attentionField, currentSize,
                 pendingActivitiesByRole, paceTimer, subscriptions>>
  /\ UNCHANGED <<stopped, intervals, suspended>>
  /\ warned' = FALSE
  /\ UNCHANGED hubVars

\* hub.disconnectFaculty(role): unsetHub, and the hub drops the role's handlers
Attention_unsetHub ==
  /\ Outside
  /\ att_hubPort
  /\ att_hubPort' = FALSE
  /\ subscriptions' = 0
  /\ UNCHANGED <<config, focuses, attentionField, currentSize,
                 pendingActivitiesByRole, paceTimer>>
  /\ UNCHANGED <<stopped, intervals, suspended>>
  /\ warned' = FALSE
  /\ UNCHANGED hubVars

\* startPaceTimer(): setInterval, unless the field holds a timer
startPaceTimer == IF paceTimer THEN intervals ELSE intervals + 1

stopPaceTimer_keepsInterval == intervals

\* stopPaceTimer(): clearInterval of the timer the field holds
stopPaceTimer == IF paceTimer THEN intervals - 1 ELSE intervals

\* start(): throws without a port; else registers one more handler and
\* starts the timer unless one is set
Attention_start ==
  /\ Outside
  /\ att_hubPort => subscriptions < MaxSubscriptions
  /\ IF ~att_hubPort
       THEN UNCHANGED <<subscriptions, paceTimer, intervals>>
       ELSE /\ subscriptions' = subscriptions + 1
            /\ intervals' = startPaceTimer
            /\ paceTimer' = TRUE
  /\ UNCHANGED <<config, att_hubPort, focuses, attentionField, currentSize,
                 pendingActivitiesByRole>>
  /\ stopped' = FALSE
  /\ UNCHANGED suspended
  /\ warned' = FALSE
  /\ UNCHANGED hubVars

\* stop(): stopPaceTimer, and the buffers are emptied
Attention_stop ==
  /\ Outside
  /\ intervals' = stopPaceTimer
  /\ paceTimer' = FALSE
  /\ attentionField' = <<>>
  /\ pendingActivitiesByRole' = <<>>
  /\ currentSize' = 0
  /\ UNCHANGED <<config, att_hubPort, focuses, subscriptions>>
  /\ stopped' = TRUE
  /\ UNCHANGED suspended
  /\ warned' = FALSE
  /\ UNCHANGED hubVars

\* setFacultyFocus(facultyName, focus): throws when focus is out of [0, 1]
setFacultyFocus(facultyName, focus) ==
  /\ Outside
  /\ focuses' = IF Less(focus, 0) \/ Less(FocusDen, focus) THEN focuses
                ELSE MapSet(focuses, facultyName, focus)
  /\ UNCHANGED <<config, att_hubPort, attentionField, currentSize,
                 pendingActivitiesByRole, paceTimer, subscriptions>>
  /\ UNCHANGED <<stopped, intervals, suspended>>
  /\ warned' = FALSE
  /\ UNCHANGED hubVars

getFacultyFocus(role) ==
  IF role \in DOMAIN focuses THEN focuses[role] ELSE FocusDen

\* const maxAddSize = size_per_second * (reaction_time / 1000)
maxAddSize == (config.size_per_second * config.reaction_time) \div 1000

\* the orders in which a MaxPriorityQueue may hand out its entries: highest
\* priority first, entries of one priority in any order
DequeueOrders(queue) ==
  LET n == BagCardinality(queue)
      S == BagToSet(queue)
  IN { o \in [1..n -> S] :
         /\ SeqToBag(o) = queue
         /\ \A i \in 1..(n - 1) : o[i].priority >= o[i + 1].priority }

RECURSIVE Drain(_)
\* the contents allEntriesByRole may have after the queues were drained
Drain(pending) ==
  IF pending = <<>> THEN {<<>>}
  ELSE { <<[role |-> Head(pending).role, entries |-> o]>> \o rest :
           o \in DequeueOrders(Head(pending).queue),
           rest \in Drain(Tail(pending)) }

RECURSIVE TotalSize(_)
TotalSize(all) ==
  IF all = <<>> THEN 0
  ELSE SumLength(Head(all).entries) + TotalSize(Tail(all))

RECURSIVE TotalFocus(_)
TotalFocus(all) ==
  IF all = <<>> THEN 0
  ELSE LET roleFocus == getFacultyFocus(Head(all).role)
           rest == TotalFocus(Tail(all))
       IN IF roleFocus = NaN \/ rest = NaN THEN NaN ELSE roleFocus + rest

\* every role given the whole of maxAddSize
roleMaxSize_whole(roleFocus, totalFocus) == maxAddSize

\* Math.floor(maxAddSize * (roleFocus / totalFocus))
roleMaxSize(roleFocus, totalFocus) ==
  IF roleFocus = NaN \/ totalFocus = NaN \/ totalFocus = 0 THEN NaN
  ELSE (maxAddSize * roleFocus) \div totalFocus

RECURSIVE selectEntries(_, _, _)
\* the loop over one role's entries: those that still fit the role's share
\* are added, the others go back to the role's queue
selectEntries(entries, roleAddedSize, limit) ==
  IF entries = <<>> THEN [added |-> <<>>, back |-> EmptyBag]
  ELSE LET entry == Head(entries)
           entrySize == entry.content.length
       IN IF limit # NaN /\ roleAddedSize + entrySize <= limit
            THEN LET r == selectEntries(Tail(entries),
                                        roleAddedSize + entrySize, limit)
                 IN [r EXCEPT !.added = <<entry>> \o @]
            ELSE LET r == selectEntries(Tail(entries), roleAddedSize, limit)
                 IN [r EXCEPT !.back = @ (+) SetToBag({entry})]

\* steps 2 and 3 of processPendingActivities over the drained queues: what
\* goes to toAdd, and the queues left behind
allocate(all) ==
  IF TotalSize(all) <= maxAddSize
    THEN [toAdd |-> Concat([i \in 1..Len(all) |-> all[i].entries]),
          pending |-> [i \in 1..Len(all) |->
                         [role |-> all[i].role, queue |-> EmptyBag]]]
    ELSE LET totalFocus == TotalFocus(all)
             sel == [i \in 1..Len(all) |->
                       selectEntries(all[i].entries, 0,
                                     roleMaxSize(getFacultyFocus(all[i].role),
                                                 totalFocus))]
         IN [toAdd |-> Concat([i \in 1..Len(all) |-> sel[i].added]),
             pending |-> [i \in 1..Len(all) |->
                            [role |-> all[i].role, queue |-> sel[i].back]]]

RECURSIVE insertByTimestamp(_, _)
insertByTimestamp(sorted, entry) ==
  IF sorted = <<>> THEN <<entry>>
  ELSE IF Head(sorted).timestamp <= entry.timestamp
         THEN <<Head(sorted)>> \o insertByTimestamp(Tail(sorted), entry)
         ELSE <<entry>> \o sorted

RECURSIVE sortByTimestamp(_)
\* toAdd.sort((a, b) => a.timestamp - b.timestamp), a stable sort
sortByTimestamp(entries) ==
  IF entries = <<>> THEN <<>>
  ELSE insertByTimestamp(sortByTimestamp(SubSeq(entries, 1, Len(entries) - 1)),
                         entries[Len(entries)])

\* Math.floor(attentionField.length * clearPercentage)
clearCount ==
  (Len(attentionField) * config.clearPercentage[1]) \div config.clearPercentage[2]

clearAttentionField_keepsSize(field) == currentSize

\* the currentSize clearAttentionField leaves, field being what is left of
\* the attention field
clearAttentionField(field) == SumLength(field)

\* the 'cleared' body with the currentSize of before the eviction
clearedBody_staleSize(clearedEntries, totalCount, remaining) ==
  [action |-> "cleared", clearedEntries |-> clearedEntries,
   clearedCount |-> clearCount, totalCount |-> totalCount,
   clearedSize |-> SumLength(clearedEntries),
   remainingSize |-> currentSize]

\* the body of the 'cleared' activity: the entries spliced off the field,
\* clearCount, the length of the field before, their size, and the
\* currentSize recomputed from what is left
clearedBody(clearedEntries, totalCount, remaining) ==
  [action |-> "cleared", clearedEntries |-> clearedEntries,
   clearedCount |-> clearCount, totalCount |-> totalCount,
   clearedSize |-> SumLength(clearedEntries),
   remainingSize |-> clearAttentionField(remaining)]

\* the body of the 'add' activity, built after toAdd was pushed to the field
\* and added to currentSize; usage is the fraction currentSize / maxSize
addBody(added, field, size) ==
  [action |-> "add", addedEntries |-> added, attentionField |-> field,
   currentSize |-> size, maxSize |-> config.maxSize,
   usage |-> <<size, config.maxSize>>]

continuationQueued_never == FALSE

\* Whether the continuation of the suspended tick is in the microtask queue.
\* clearAttentionField awaits nothing, so the promise the tick awaits is
\* settled when the tick suspends, and the continuation is queued at once.
continuationQueued ==
  pc = "awaiting" /\ clearing \in {"silent", "published", "rejected"}

\* The interval timer fires, which the runtime lets happen only when no
\* microtask is queued: processPendingActivities up to its await, or to
\* its end when it does not call clearAttentionField. A handler of the
\* 'cleared' activity that throws makes hubPort.appendActivity raise, and the
\* promise of clearAttentionField is rejected.
processPendingActivities ==
  /\ intervals > 0
  /\ ~continuationQueued
  /\ suspended' = IF pc = "awaiting"
                    THEN Append(suspended, [toAdd |-> toAdd,
                                            addedSize |-> addedSize,
                                            clearing |-> clearing])
                    ELSE suspended
  /\ \E all \in Drain(pendingActivitiesByRole) :
       LET a == allocate(all)
       IN /\ toAdd' = sortByTimestamp(a.toAdd)
          /\ addedSize' = SumLength(a.toAdd)
          /\ pendingActivitiesByRole' = a.pending
  /\ IF currentSize + addedSize' > config.maxSize
       THEN /\ pc' = "awaiting"
            /\ IF clearCount = 0
                 THEN /\ clearing' = "silent"
                      /\ emitted' = <<>>
                      /\ body' = NoBody
                      /\ UNCHANGED <<attentionField, currentSize>>
                 ELSE /\ attentionField' =
                           SubSeq(attentionField, clearCount + 1, Len(attentionField))
                      /\ currentSize' = clearAttentionField(attentionField')
                      /\ IF att_hubPort
                           THEN /\ emitted' = <<"cleared">>
                                /\ body' =
                                     clearedBody(
                                       SubSeq(attentionField, 1, clearCount),
                                       Len(attentionField), attentionField')
                                /\ \E outcome \in Outcomes :
                                     clearing' = IF outcome = "throw"
                                                   THEN "rejected"
                                                   ELSE "published"
                           ELSE /\ emitted' = <<>>
                                /\ body' = NoBody
                                /\ clearing' = "silent"
       ELSE /\ clearing' = "none"
            /\ attentionField' = attentionField \o toAdd'
            /\ currentSize' = currentSize + addedSize'
            /\ emitted' = IF att_hubPort THEN <<"add">> ELSE <<>>
            /\ body' = IF att_hubPort
                         THEN addBody(toAdd', attentionField', currentSize')
                         ELSE NoBody
            /\ pc' = "completed"
  /\ UNCHANGED <<config, att_hubPort, focuses, paceTimer, subscriptions>>
  /\ UNCHANGED <<stopped, intervals>>
  /\ warned' = FALSE
  /\ UNCHANGED hubVars

\* processPendingActivities after its await: it ends there when the promise
\* was rejected, and adds toAdd to the field otherwise
processPendingActivities_resume ==
  /\ pc = "awaiting" \/ suspended # <<>>
  /\ IF pc # "awaiting"
       THEN \* the newest tick has ended: the one it displaced is next
            /\ pc' = "awaiting"
            /\ toAdd' = suspended[Len(suspended)].toAdd
            /\ addedSize' = suspended[Len(suspended)].addedSize
            /\ clearing' = suspended[Len(suspended)].clearing
            /\ suspended' = SubSeq(suspended, 1, Len(suspended) - 1)
            /\ body' = NoBody
            /\ UNCHANGED <<attentionField, currentSize, emitted>>
       ELSE /\ IF clearing = "rejected"
                 THEN /\ pc' = "rejected"
                      /\ body' = NoBody
                      /\ UNCHANGED <<attentionField, currentSize, emitted>>
                 ELSE /\ pc' = "completed"
                      /\ attentionField' = attentionField \o toAdd
                      /\ currentSize' = currentSize + addedSize
                      /\ emitted' = IF att_hubPort THEN Append(emitted, "add")
                                    ELSE emitted
                      /\ body' = IF att_hubPort
                                   THEN addBody(toAdd, attentionField',
                                                currentSize')
                                   ELSE NoBody
            /\ UNCHANGED <<toAdd, addedSize, clearing, suspended>>
  /\ UNCHANGED <<config, att_hubPort, focuses, pendingActivitiesByRole,
                 paceTimer, subscriptions>>
  /\ UNCHANGED <<stopped, intervals>>
  /\ warned' = FALSE
  /\ UNCHANGED hubVars

NextAtt ==
  \/ \E activity \in ConsciousEvents : Hub_publishConscious(activity)
  \/ Attention_setHub
  \/ Attention_unsetHub
  \/ Attention_start
  \/ Attention_stop
  \/ \E facultyName \in FocusRoles, focus \in FocusInputs :
       setFacultyFocus(facultyName, focus)
  \/ processPendingActivities
  \/ processPendingActivities_resume

\* ------------------------------------------------------------------------
\* Specifications
\* ------------------------------------------------------------------------
\* defaultConfig
defaultConfig ==
  [maxSize |-> 10000, clearPercentage |-> <<1, 2>>, reaction_time |-> 200,
   size_per_second |-> 500, max_entry_length |-> 1000]

NextHub ==
  \/ \E activity \in Activities : Hub_appendActivity(activity)
  \/ \E role \in Roles, faculty \in FacultyObjs : connectFaculty(role, faculty)
  \/ \E role \in Roles : disconnectFaculty(role)
  \/ Hub_resume
  \/ Hub_stop
  \/ \E faculty \in FacultyObjs, condition \in Conditions :
       Port_registerActivityHandler(faculty, condition)
  \/ \E faculty \in FacultyObjs, h \in 1..MaxHandlers :
       Port_unregisterActivityHandler(faculty, h)
  \/ \E faculty \in FacultyObjs : Port_unregisterAllHandlers(faculty)

\* a hub and an Attention of the default configuration, both just constructed
InitHub == HubInit /\ AttentionInit(defaultConfig)

\* the hub with the faculties connecting to it
SpecHub == InitHub /\ [][NextHub]_vars

\* the hub with its fan-out followed call by call: every operation can be
\* called by the handler that is running
NextDispatch ==
  \/ \E activity \in Activities : Dispatch_publish(activity)
  \/ \E outcome \in Outcomes : Dispatch_step(outcome)
  \/ Hub_resume
  \/ \E role \in Roles, faculty \in FacultyObjs : connectFaculty(role, faculty)
  \/ \E role \in Roles : disconnectFaculty(role)
  \/ \E faculty \in FacultyObjs, condition \in Conditions :
       Port_registerActivityHandler(faculty, condition)
  \/ \E faculty \in FacultyObjs, h \in 1..MaxHandlers :
       Port_unregisterActivityHandler(faculty, h)

SpecDispatch == InitHub /\ [][NextDispatch]_vars

\* the hub with the faculties publishing through their ports
NextPort ==
  \/ Hub_resume
  \/ \E role \in Roles, faculty \in FacultyObjs : connectFaculty(role, faculty)
  \/ \E faculty \in FacultyObjs, condition \in Conditions :
       Port_registerActivityHandler(faculty, condition)
  \/ \E faculty \in FacultyObjs, verb \in Verbs, timeStr \in Clock :
       Port_appendActivity(faculty, verb, timeStr)

SpecPort == InitHub /\ [][NextPort]_vars

\* the hub with handlers whose filter may throw
NextMatch ==
  \/ \E activity \in Activities : Hub_appendActivity(activity)
  \/ \E role \in Roles, faculty \in FacultyObjs : connectFaculty(role, faculty)
  \/ \E role \in Roles : disconnectFaculty(role)
  \/ Hub_resume
  \/ \E faculty \in FacultyObjs, condition \in Matchers :
       Port_registerActivityHandler(faculty, condition)

SpecMatch == InitHub /\ [][NextMatch]_vars

\* a hub and an Attention of some configuration, both just constructed
InitAtt == HubInit /\ \E cfg \in Configs : AttentionInit(cfg)

\* the Attention faculty; the hub is its environment
SpecAtt == InitAtt /\ [][NextAtt]_vars

\* the same, with the runtime calling the interval's callback again and
\* again as long as the interval exists, and running the continuation of a
\* tick that awaits
SpecAttLive ==
  /\ InitAtt
  /\ [][NextAtt]_vars
  /\ WF_vars(processPendingActivities)
  /\ WF_vars(processPendingActivities_resume)

\* ------------------------------------------------------------------------
\* Properties of the hub
\* ------------------------------------------------------------------------
Published == last.op = "publish"

IsPrefix(s, t) == Len(s) <= Len(t) /\ \A i \in 1..Len(s) : s[i] = t[i]

OwnedBy(all, hs, role) == { h \in Range(all) : hs[h].role = role }

\* C4: handler fault isolation.  When a publish on a running hub matches at
\* least two handlers and one of them fails (its promise rejects, or the call
\* throws), the publish does not raise and every matching handler is invoked.
C4_FaultIsolation ==
  (Published /\ running /\ Len(matchedHandlers(last.act)) >= 2
             /\ (last.rejected \/ last.raised))
    => /\ ~last.raised
       /\ \A h \in Range(matchedHandlers(last.act)) : h \in Range(last.invoked)

\* C5: on a running hub every registered handler whose condition accepts the
\* published activity is invoked exactly once for that publish.
C5_ExactlyOnce ==
  (Published /\ running)
    => \A h \in Range(all_handlers) :
         isMatch(h, last.act) => Count(last.invoked, h) = 1

\* C6: a handler that leaves a port's own set of registered handlers through
\* unregisterActivityHandler or unregisterAllHandlers (the port stays bound)
\* is no longer registered with the hub.
C6_PortUnsubscribeRemoves ==
  [][\A f \in FacultyObjs :
       (hubPort[f] # NoPort /\ hubPort'[f].role = hubPort[f].role)
         => \A h \in Range(hubPort[f].registeredHandlers) :
              h \notin Range(hubPort'[f].registeredHandlers)
                => h \notin Range(all_handlers')]_vars

\* C7: disconnectFaculty(role) of a registered role removes the faculty and
\* exactly the handlers of that role; of an unknown role it changes neither
\* registry; and no handler of a role that is not registered is held by the
\* hub or invoked by a publish.
C7_Disconnect ==
  [][/\ last'.op = "disconnect" =>
          LET role == last'.role
          IN IF role \in DOMAIN faculties
               THEN /\ faculties' = MapDelete(faculties, role)
                    /\ Range(all_handlers') =
                         Range(all_handlers) \ OwnedBy(all_handlers, handlers, role)
                    /\ \A h \in Range(all_handlers') : handlers'[h] = handlers[h]
                    /\ role \notin DOMAIN handlers_of_role'
               ELSE /\ faculties' = faculties
                    /\ all_handlers' = all_handlers
                    /\ handlers_of_role' = handlers_of_role
     /\ \A h \in Range(all_handlers') : handlers'[h].role \in DOMAIN faculties'
     /\ last'.op = "publish" =>
          \A h \in Range(last'.invoked) : handlers'[h].role \in DOMAIN faculties'
    ]_vars

\* a disconnect of a role that had handlers, another role keeping its own
C7_Witness ==
  /\ last.op = "disconnect" /\ last.warn = None
  /\ all_handlers # <<>>
  /\ Cardinality(DOMAIN handlers) < MaxHandlers

\* C8: appendActivity on a hub that is not running invokes no handler, does
\* not raise and leaves the registries as they were.
C8_NotRunning ==
  [][(last'.op = "publish" /\ ~running)
       => /\ last'.invoked = <<>>
          /\ ~last'.raised
          /\ UNCHANGED <<faculties, handlers_of_role, all_handlers, handlers,
                         hubPort, running>>]_vars

\* a publish on a stopped hub of an activity a registered handler accepts
C8_Witness ==
  /\ Published /\ ~running
  /\ matchedHandlers(last.act) # <<>>

\* C9: on a running hub an activity of a role that is not registered is
\* dispatched like any other: the handlers invoked are the matching handlers
\* in registration order, all of them unless a call throws.
C9_PermissiveDelivery ==
  (Published /\ running /\ last.role \notin DOMAIN faculties)
    => /\ IsPrefix(last.invoked, matchedHandlers(last.act))
       /\ ~last.raised => last.invoked = matchedHandlers(last.act)

\* an activity of an unregistered role reached a handler
C9_Witness ==
  /\ Published /\ running /\ last.warn = "unregistered"
  /\ last.invoked # <<>>

\* C10: connectFaculty for a role that is taken changes nothing and does not
\* raise: the registered faculty stays, no port is handed out, the handlers
\* stay.
C10_ConnectTaken ==
  [][(last'.op = "connect" /\ last'.role \in DOMAIN faculties)
       => /\ faculties' = faculties
          /\ hubPort' = hubPort
          /\ all_handlers' = all_handlers
          /\ handlers_of_role' = handlers_of_role
          /\ ~last'.raised]_vars

\* a second faculty tried to take a role that another faculty holds, and the
\* holder has handlers registered
C10_Witness ==
  /\ last.op = "connect" /\ last.warn = "taken"
  /\ faculties[last.role] # last.fac
  /\ hubPort[last.fac] = NoPort
  /\ OwnedBy(all_handlers, handlers, last.role) # {}

\* ------------------------------------------------------------------------
\* Properties of Attention
\* ------------------------------------------------------------------------
NoTick == pc # "awaiting"

TickStarts == pc # "awaiting" /\ pc' \in {"awaiting", "completed"}

TickEnds == pc' \in {"completed", "rejected"}

EntriesOf(entries, role) == SeqToBag(SelectSeq(entries, LAMBDA e : e.role = role))

IsSuffix(s, t) ==
  Len(s) <= Len(t) /\ SubSeq(t, Len(t) - Len(s) + 1, Len(t)) = s

\* C1: after every completed admission tick currentSize <= maxSize, whatever
\* the field, the pending entries and the configuration.
C1_WithinMaxSize == pc = "completed" => currentSize <= config.maxSize

\* C2: whenever no tick is executing, currentSize is the sum of the content
\* lengths of the entries in the attention field.
C2_SizeIsSum == NoTick => currentSize = SumLength(attentionField)

\* a tick that evicted entries, kept others and added new ones has completed
C2_Witness ==
  /\ pc = "completed"
  /\ "cleared" \in Range(emitted)
  /\ toAdd # <<>>
  /\ Len(attentionField) > Len(toAdd)

\* C3: for every role, the entries pending before a tick are exactly the
\* entries the tick selects plus the entries it puts back into the role's
\* queue, and the tick adds the entries it selected to the field.
C3_NoDrop ==
  [][/\ TickStarts =>
          \A role \in SourceRoles :
            QueueOf(pendingActivitiesByRole, role) =
              EntriesOf(toAdd', role) (+) QueueOf(pendingActivitiesByRole', role)
     /\ TickEnds => IsSuffix(toAdd', attentionField')]_vars

\* C11: after stop() has returned, no tick begins until start() is called.
C11_NoTickAfterStop == [][stopped => ~TickStarts]_vars

\* stop() has cancelled the timer while the controller is still connected
\* and subscribed, and Conscious activities have arrived since
C11_Witness ==
  /\ stopped /\ intervals = 0
  /\ att_hubPort /\ subscriptions > 0
  /\ PendingCount(pendingActivitiesByRole) > 0

\* C12: no tick begins while another tick has begun and not ended, so no
\* tick is ever displaced by a newer one.
C12_OneTick == suspended = <<>>

\* a tick is suspended at its await while the timer is set, the handlers of
\* its 'cleared' activity have run and entries are pending again
C12_Witness ==
  /\ pc = "awaiting" /\ intervals > 0
  /\ clearing = "published"
  /\ PendingCount(pendingActivitiesByRole) > 0

\* C13: once stop() has returned, the field is empty and currentSize is 0
\* until start() is called.
C13_StaysEmpty == stopped => (attentionField = <<>> /\ currentSize = 0)

\* C14: once stop() has returned, the hub holds no handler of the
\* controller and the pending queues are empty.
C14_Unsubscribed ==
  stopped => (subscriptions = 0 /\ PendingCount(pendingActivitiesByRole) = 0)

Ascending(entries) ==
  \A i \in 1..(Len(entries) - 1) :
    entries[i].timestamp <= entries[i + 1].timestamp

\* C15: after every tick the whole attention field is in ascending order of
\* timestamp.
C15_FieldAscending == pc = "completed" => Ascending(attentionField)

\* floor(fieldLength * clearPercentage) of the field as it is
EvictCount ==
  (Len(attentionField) * config.clearPercentage[1]) \div config.clearPercentage[2]

\* C16: a tick whose selected entries do not fit under maxSize removes the
\* floor(length * clearPercentage) oldest entries of the field, once, and
\* then appends every selected entry; a tick whose entries fit removes
\* nothing and appends them.
C16_EvictionRule ==
  [][/\ TickStarts =>
          IF currentSize + SumLength(toAdd') > config.maxSize
            THEN /\ pc' = "awaiting"
                 /\ attentionField' =
                      SubSeq(attentionField, EvictCount + 1, Len(attentionField))
            ELSE attentionField' = attentionField \o toAdd'
     /\ (pc = "awaiting" /\ pc' # "awaiting") =>
          attentionField' = attentionField \o toAdd]_vars

\* the total content length of the entries of a queue
QueueLength(queue) == SumLength(CHOOSE o \in DequeueOrders(queue) : TRUE)

\* the roles that have entries pending
RolesPending ==
  { role \in SourceRoles : QueueOf(pendingActivitiesByRole, role) # EmptyBag }

RECURSIVE FocusOver(_)
\* the sum of the focus of the roles of a set
FocusOver(roles) ==
  IF roles = {} THEN 0
  ELSE LET role == CHOOSE r \in roles : TRUE
       IN getFacultyFocus(role) + FocusOver(roles \ {role})

RECURSIVE LengthOver(_)
\* the total content length pending for the roles of a set
LengthOver(roles) ==
  IF roles = {} THEN 0
  ELSE LET role == CHOOSE r \in roles : TRUE
       IN QueueLength(QueueOf(pendingActivitiesByRole, role))
            + LengthOver(roles \ {role})

\* C17: when the pending entries fit the budget of the tick, all of them are
\* selected.  Otherwise, with totalFocus the sum of the focus of the roles
\* that have entries pending and share = budget * focus / totalFocus, a role
\* with at most its share pending has all its entries selected, and a role
\* with more has at most its share selected.
C17_Shares ==
  [][TickStarts =>
       LET totalFocus == FocusOver(RolesPending)
           pending(role) == QueueOf(pendingActivitiesByRole, role)
       IN IF LengthOver(RolesPending) <= maxAddSize
            THEN \A role \in RolesPending : EntriesOf(toAdd', role) = pending(role)
            ELSE (totalFocus > 0 /\ \A role \in RolesPending :
                                     getFacultyFocus(role) # NaN) =>
                   \A role \in RolesPending :
                     IF QueueLength(pending(role)) * totalFocus
                          <= maxAddSize * getFacultyFocus(role)
                       THEN EntriesOf(toAdd', role) = pending(role)
                       ELSE QueueLength(EntriesOf(toAdd', role)) * totalFocus
                              <= maxAddSize * getFacultyFocus(role)]_vars

\* the entries of a role the tick put back into its queue
Deferred(role) == BagToSet(QueueOf(pendingActivitiesByRole', role))

\* C18: in a contended tick with exactly two roles pending, their focus in
\* ratio 2:1 and each with at least its share pending, each role has at most
\* its share selected and misses it by less than the length of one of the
\* entries it had deferred.
C18_Fairness ==
  [][\A heavy, light \in SourceRoles :
       LET two == {heavy, light}
           totalFocus == FocusOver(two)
           share(role) == maxAddSize * getFacultyFocus(role)
           pending(role) == QueueLength(QueueOf(pendingActivitiesByRole, role))
           selected(role) == QueueLength(EntriesOf(toAdd', role))
       IN (/\ TickStarts
           /\ RolesPending = two
           /\ getFacultyFocus(light) > 0
           /\ getFacultyFocus(heavy) = 2 * getFacultyFocus(light)
           /\ LengthOver(two) > maxAddSize
           /\ \A role \in two : pending(role) * totalFocus >= share(role))
          => \A role \in two :
               /\ selected(role) * totalFocus <= share(role)
               /\ IF Deferred(role) = {}
                    THEN selected(role) * totalFocus = share(role)
                    ELSE \E e \in Deferred(role) :
                           share(role) - selected(role) * totalFocus
                             < e.content.length * totalFocus]_vars

\* the entries the controller holds
StoredEntries ==
  Range(attentionField) \cup Range(toAdd)
    \cup UNION { BagToSet(pendingActivitiesByRole[i].queue) :
                   i \in 1..Len(pendingActivitiesByRole) }

\* C19: the content of every entry has at most max_entry_length characters,
\* and exactly that many, ending with the marker, when it was cut.
C19_Truncation ==
  \A e \in StoredEntries :
    /\ e.content.length <= config.max_entry_length
    /\ e.content.dots => e.content.length = config.max_entry_length

\* C20: every focus in the table is a number of [0, 1].
C20_FocusInRange == \A role \in DOMAIN focuses : focuses[role] \in 0..FocusDen

\* C22: a tick that begins with a port publishes 'cleared' exactly when it
\* removed entries from the field, and a tick that ends with a port has
\* published one 'add', preceded by at most one 'cleared' and by nothing else
C22_Notifications ==
  [][/\ (TickStarts /\ att_hubPort)
          => (("cleared" \in Range(emitted'))
                <=> (pc' = "awaiting"
                       /\ Len(attentionField') < Len(attentionField)))
     /\ (TickEnds /\ att_hubPort')
          => emitted' \in {<<"add">>, <<"cleared", "add">>}]_vars

\* C25: in a tick, no entry of a role is added to the field while an entry
\* of the same role with a higher priority is put back into the role's queue
C25_PriorityPrefix ==
  [][TickStarts =>
       \A role \in SourceRoles :
         \A e \in Range(toAdd'),
            d \in BagToSet(QueueOf(pendingActivitiesByRole', role)) :
           e.role = role => e.priority >= d.priority]_vars

\* C26: a 'cleared' body reports the entries taken off the front of the
\* field: clearedCount is their number and at most totalCount, the length of
\* the field before; clearedSize is the sum of their lengths, and with
\* remainingSize it makes the total length of the field before. An 'add'
\* body holds the field as it is after the append, the sum of its lengths as
\* currentSize, and usage = currentSize / maxSize.
C26_Payloads ==
  [][/\ body'.action = "cleared" =>
          /\ body'.clearedCount = Len(body'.clearedEntries)
          /\ body'.totalCount = Len(attentionField)
          /\ body'.clearedCount <= body'.totalCount
          /\ body'.clearedEntries \o attentionField' = attentionField
          /\ body'.clearedSize = SumLength(body'.clearedEntries)
          /\ body'.clearedSize + body'.remainingSize = SumLength(attentionField)
     /\ body'.action = "add" =>
          /\ body'.attentionField = attentionField'
          /\ body'.currentSize = SumLength(body'.attentionField)
          /\ body'.usage = <<body'.currentSize, config.maxSize>>]_vars

\* a tick has published 'cleared' and then 'add', with entries added to
\* entries that were kept
C26_Witness ==
  /\ body.action = "add"
  /\ emitted = <<"cleared", "add">>
  /\ body.addedEntries # <<>>
  /\ Len(body.attentionField) > Len(body.addedEntries)

\* C27: a Conscious activity whose readable() throws is ignored: the
\* handler returns after its warning, and the pending queues, the field and
\* currentSize are what they were
C27_RenderFailure ==
  [][warned' => UNCHANGED <<pendingActivitiesByRole, attentionField,
                            currentSize>>]_vars

\* readable() has thrown while entries were pending and the field held
\* entries
C27_Witness ==
  /\ warned
  /\ PendingCount(pendingActivitiesByRole) > 0
  /\ attentionField # <<>>

\* C28: the entries a tick selects have a total content length of at most
\* maxAddSize; and when more than maxAddSize is pending, with totalFocus the
\* sum of the focus of the roles that have entries pending, the entries
\* selected of a role have at most floor(maxAddSize * focus / totalFocus)
\* (nothing is selected when that quotient is not a number)
C28_Budget ==
  [][TickStarts =>
       LET totalFocus == FocusOver(RolesPending)
           selected(role) == QueueLength(EntriesOf(toAdd', role))
       IN /\ SumLength(toAdd') <= maxAddSize
          /\ LengthOver(RolesPending) > maxAddSize =>
               IF totalFocus > 0 /\ \A role \in RolesPending :
                                      getFacultyFocus(role) # NaN
                 THEN \A role \in RolesPending :
                        selected(role) * totalFocus
                          <= maxAddSize * getFacultyFocus(role)
                 ELSE toAdd' = <<>>]_vars

\* a tick has just selected entries and put others back, with entries of at
\* least two roles among them
C28_Witness ==
  /\ pc = "completed"
  /\ clearing = "none"
  /\ toAdd # <<>>
  /\ PendingCount(pendingActivitiesByRole) > 0
  /\ \E e \in Range(toAdd) :
       QueueOf(pendingActivitiesByRole, e.role) = EmptyBag

\* the entry is in a pending queue
IsPending(entry) ==
  \E i \in 1..Len(pendingActivitiesByRole) :
    BagIn(entry, pendingActivitiesByRole[i].queue)

\* C29: an entry in a pending queue is in the attention field at some later
\* time, unless the timer is stopped
C29_EventualAdmission ==
  \A activity \in ConsciousEvents :
    (~activity.fails /\ IsPending(consciousToEntry(activity)))
      ~> (consciousToEntry(activity) \in Range(attentionField) \/ intervals = 0)

\* C30: there is never more than one interval timer nor more than one
\* handler registered by start(), and a step that adds to the pending queues
\* adds exactly one entry
C30_OneTimerOneSubscription ==
  [][/\ intervals' <= 1
     /\ subscriptions' <= 1
     /\ PendingCount(pendingActivitiesByRole')
          > PendingCount(pendingActivitiesByRole)
          => PendingCount(pendingActivitiesByRole')
               = PendingCount(pendingActivitiesByRole) + 1]_vars

\* ------------------------------------------------------------------------
\* Properties of the fan-out followed call by call (SpecDispatch)
\* ------------------------------------------------------------------------
\* a call of triggerHandlers returns or raises
FanoutEnds == Len(fanout') < Len(fanout)

\* C21: when a publish comes back to its caller, the handlers it invoked are
\* exactly the handlers that were registered and matching when it was made,
\* whatever the handlers that ran subscribed, unsubscribed, disconnected or
\* published meanwhile
C21_StableSnapshot ==
  [][FanoutEnds => Top(fanout).invoked = Top(fanout).matched]_vars

\* ------------------------------------------------------------------------
\* Properties of the ports publishing (SpecPort)
\* ------------------------------------------------------------------------
\* the last call was a publish of an activity built by a port
PortPublished == Published /\ "id" \in DOMAIN last.act

\* C23: every activity built by a port's appendActivity carries that port's
\* role, and no two activities built in the process have the same id,
\* whichever ports built them and whatever the clock read
C23_UniqueIds ==
  /\ \A i \in 1..Len(created) : created[i].role = created[i].port
  /\ \A i, j \in 1..Len(created) :
       i # j => created[i].id # created[j].id

\* two ports of different roles, whose names agree on their first ten
\* characters, have published within the same second
C23_Witness ==
  \E i, j \in 1..Len(created) :
    /\ created[i].port # created[j].port
    /\ slice(created[i].id, 17) = slice(created[j].id, 17)

\* C24: an 'add' or 'cleared' activity published through a port is never
\* handed to a handler registered with the filter isConscious, which is the
\* only subscription Attention makes: its notifications do not come back to
\* handleConsciousActivity
C24_NoFeedback ==
  PortPublished =>
    \A i \in 1..Len(last.invoked) :
      handlers[last.invoked[i]].condition.kind # "filter"

\* a faculty that subscribed with isConscious has published through its own
\* port on a running hub, and another handler was invoked for it
C24_Witness ==
  /\ PortPublished
  /\ running
  /\ last.invoked # <<>>
  /\ \E h \in Range(all_handlers) :
       /\ handlers[h].condition.kind = "filter"
       /\ handlers[h].role = last.act.role

\* ------------------------------------------------------------------------
\* Properties of the hub with filters that throw (SpecMatch)
\* ------------------------------------------------------------------------
\* C31: when the filter of a registered handler throws for the activity
\* published on a running hub, the publish does not raise and every handler
\* whose condition accepts the activity is invoked
C31_MatcherIsolation ==
  (Published /\ running
             /\ \E h \in Range(all_handlers) : filterThrows(h, last.act))
    => /\ ~last.raised
       /\ \A h \in Range(matchedHandlers(last.act)) : h \in Range(last.invoked)

====
